---- MODULE Spec2Model ----
(***************************************************************************)
(* A model of lenovo-agent/agent.py: the WebSocket live shell (ws_shell)   *)
(* with its two drain tasks and the subprocess it spawns, the synchronous  *)
(* command executor (run_cmd), alone and in concurrent /exec calls, and    *)
(* the file endpoints (read_file, write_file).  Each part has its own      *)
(* variables and its own specification.                                    *)
(*                                                                         *)
(* Text is a sequence of code points (10 is the newline).  Every message   *)
(* the session sends carries, besides the fields of the wire format, the   *)
(* number `cmd` of the submission it was sent for; the wire format has no  *)
(* such field, it is kept so that properties can speak of "the messages    *)
(* of a command".                                                          *)
(*                                                                         *)
(* A subprocess is any program: after each operation it commits to its     *)
(* next one (a write to a channel, closing its pipes, exiting, or never    *)
(* exiting) and blocks until it can do it.  Its lines fit the line limit   *)
(* of asyncio's stream reader.  A send on a connection that is closed      *)
(* raises WebSocketDisconnect in the task that sends.  Files hold ASCII    *)
(* text, and the agent runs on Linux (os.linesep is the newline).          *)
(***************************************************************************)
EXTENDS Integers, Sequences, FiniteSets, TLC

\* ---------------------------------------------------------------- bounds

\* submissions a client sends on one connection
MaxSubs == 2
\* lines the subprocesses of one session write, over both channels
MaxLines == 2
\* lines an OS pipe holds before the writer blocks
PipeCap == 1

\* ------------------------------------------------------------- constants

NL == 10
Channels == {"stdout", "stderr"}
ExitCodes == {0, 1}
PROJECT_DIR == "/project"
MissingDir == "/missing"
Terminated == {"closed", "error"}

\* ------------------------------------------------------------ submissions

\* The text of a submission: undecodable, a JSON value that is no object,
\* or a JSON object (a function from its keys to their values).
Malformed == [kind |-> "malformed", obj |-> <<>>]
NotObject == [kind |-> "array", obj |-> <<>>]
Object(o) == [kind |-> "object", obj |-> o]

NoData == [kind |-> "none", obj |-> <<>>]

Submissions ==
  { Malformed, NotObject,
    Object(<<>>),
    Object([command |-> ""]),
    Object([command |-> "sh"]),
    Object([command |-> "sh", cwd |-> MissingDir]) }

\* json.loads: an exception for undecodable text, else the value
JsonLoads(text) ==
  IF text.kind = "malformed"
  THEN [raised |-> TRUE, value |-> <<>>, isdict |-> FALSE]
  ELSE [raised |-> FALSE, value |-> text.obj, isdict |-> text.kind = "object"]

\* dict.get(key, default)
Get(d, key, default) == IF key \in DOMAIN d THEN d[key] ELSE default

DirExists(dir) == dir # MissingDir

\* ------------------------------------------------------------------ text

\* bytes.decode("utf-8", errors="replace"): a byte that is no ASCII becomes
\* U+FFFD
Decode(bytes) ==
  [i \in DOMAIN bytes |-> IF bytes[i] < 128 THEN bytes[i] ELSE 65533]

\* fault injected: the line is sent as it was read
RstripSkipped(s) == s

RECURSIVE Rstrip(_)
\* str.rstrip("\n"): drops every trailing newline
Rstrip(s) ==
  IF s # <<>> /\ s[Len(s)] = NL THEN Rstrip(SubSeq(s, 1, Len(s) - 1)) ELSE s

\* the n-th line a subprocess writes to a channel: a digit, then a newline
LineOf(n) == <<48 + n, NL>>

OutputLine(k, ch, text) == [cmd |-> k, stream |-> ch, line |-> text]
Completion(k, code) == [cmd |-> k, done |-> TRUE, exit_code |-> code]
IsCompletion(m) == "done" \in DOMAIN m

\* ----------------------------------------------------------------- state

VARIABLES
  conn,       \* the client's end of the connection: "open" or "closed"
  inbox,      \* submissions sent and not yet received
  nsub,       \* submissions sent so far
  pc,         \* where ws_shell stands
  cmdNo,      \* submissions received so far
  data,       \* ws_shell's local `data`: the submission last received
  cmd, cwd,   \* ws_shell's locals of the same names
  procs,      \* every subprocess spawned, in spawn order
  proc,       \* ws_shell's local `proc`: an index of procs, 0 before a spawn
  drain,      \* per channel, where the drain task stands
  held,       \* per channel, the line the drain task has read and not sent
  exit_code,  \* ws_shell's local of the same name
  sent        \* the messages sent on the connection, in order

svars == <<conn, inbox, nsub, pc, cmdNo, data, cmd, cwd, procs, proc, drain, held,
           exit_code, sent>>

\* one call of run_cmd
VARIABLES
  xreq,       \* the call: the command, its working directory, its timeout
  xphase,     \* "idle", "call", "running", "returned" or "raised"
  xproc,      \* the shell: "none", "running", "exited" or "killed"
  xelapsed,   \* seconds since the call
  xcaptured,  \* what the process has written so far
  xresult     \* the CommandResult returned, or the exception raised

xvars == <<xreq, xphase, xproc, xelapsed, xcaptured, xresult>>

\* the calls of run_cmd that /exec requests have running at the same time
VARIABLES
  calls       \* per call, its request, its locals and its result

yvars == <<calls>>

\* the files that /file/read and /file/write work on
VARIABLES
  fs,         \* per path: absent, a directory, or a file and its bytes
  freq,       \* the request served last
  fresp,      \* the response to it
  fwritten    \* per path, the content the last write_file wrote, if any (a set)

fvars == <<fs, freq, fresp, fwritten>>

vars == <<svars, xvars, yvars, fvars>>

\* what a step of one part leaves alone
ExecAndFiles == <<xvars, yvars, fvars>>
SessionAndFiles == <<svars, yvars, fvars>>

\* What the child does next; it commits to it and blocks until it can.
WriteOp(ch) == "write_" \o ch
EndOps == {"exit", "hang"}

Total(written) == written["stdout"] + written["stderr"]

\* the lines the processes ps have written
RECURSIVE Written(_)
Written(ps) ==
  IF ps = <<>> THEN 0 ELSE Total(Head(ps).written) + Written(Tail(ps))

\* the operations a child may commit to when n lines have been written in
\* the session and it holds its pipes open (or not)
OpsAfter(n, open) ==
  IF open
  THEN (IF n < MaxLines THEN {WriteOp(ch) : ch \in Channels} ELSE {})
         \cup {"close"} \cup EndOps
  ELSE EndOps

\* `sh -c ""` writes nothing and exits 0; any other command is any program
CodesOf(command) == IF command = "" THEN {0} ELSE ExitCodes

FirstOps(command) ==
  IF command = "" THEN {"exit"} ELSE OpsAfter(Written(procs), TRUE)

NewProc(k, command, op) ==
  [no |-> k, command |-> command, state |-> "running", next |-> op, open |-> TRUE,
   written |-> [ch \in Channels |-> 0],
   pipe |-> [ch \in Channels |-> <<>>], code |-> 0]

Live(i) == procs[i].state = "running"

\* fault injected: a message sent overtakes those sent before it
EmitFirst(m) == <<m>> \o sent

\* a message sent goes out after those sent before it
Emit(m) == Append(sent, m)

\* ws.send_json succeeds while the connection is up and the handler runs
Sendable == conn = "open" /\ pc \notin Terminated

SessionInit ==
  /\ conn = "open"
  /\ inbox = <<>>
  /\ nsub = 0
  /\ pc = "receive"
  /\ cmdNo = 0
  /\ data = NoData
  /\ cmd = ""
  /\ cwd = PROJECT_DIR
  /\ procs = <<>>
  /\ proc = 0
  /\ drain = [ch \in Channels |-> "idle"]
  /\ held = [ch \in Channels |-> <<>>]
  /\ exit_code = 0
  /\ sent = <<>>

\* ------------------------------------------------------- run_cmd, the data

\* seconds a call may be given as its timeout
MaxTimeout == 2
\* characters a command writes to one channel
MaxOut == 2

STDOUT_LIMIT == 50000
STDERR_LIMIT == 10000
TIMEOUT_CODE == 124
TIMEOUT_TEXT == <<84, 73, 77, 69, 79, 85, 84>>
RealCodes == {0, 1, 124}
None == "None"

\* the texts "", "a", "ab", ... of at most n characters
TextsUpTo(n) == {[i \in 1..k |-> 96 + i] : k \in 0..n}

\* What a shell command does: the text it writes to each channel (one
\* character a second, the rest on exit), whether that text is valid UTF-8,
\* the code it exits with and the seconds it runs.
ShellCommands ==
  [out : TextsUpTo(MaxOut), err : TextsUpTo(1), utf8 : BOOLEAN,
   code : RealCodes, runs : 1..(MaxTimeout + 1)]

NoCommand ==
  [out |-> <<>>, err |-> <<>>, utf8 |-> TRUE, code |-> 0, runs |-> 1]

Requests ==
  [command : ShellCommands, cwd : {None, "/tmp", MissingDir},
   timeout : 1..MaxTimeout]

\* s[-n:] for n > 0
TailOf(s, n) == IF Len(s) <= n THEN s ELSE SubSeq(s, Len(s) - n + 1, Len(s))

\* the first n characters of s
Prefix(s, n) == SubSeq(s, 1, IF n < Len(s) THEN n ELSE Len(s))

NoRequest == [command |-> NoCommand, cwd |-> "", timeout |-> 0]
NoResult == [exit_code |-> 0, stdout |-> <<>>, stderr |-> <<>>, duration_ms |-> 0]

\* the callers of /exec
CallIds == {1, 2}

NoCall ==
  [req |-> NoRequest, phase |-> "idle", proc |-> "none", elapsed |-> 0,
   captured |-> [ch \in Channels |-> <<>>], result |-> NoResult]

CallsInit == calls = [c \in CallIds |-> NoCall]

Paths == {"/project/notes.txt"}

Absent == [kind |-> "absent"]
Directory == [kind |-> "dir"]
File(bytes) == [kind |-> "file", bytes |-> bytes]

NoFileRequest == [op |-> "none"]
NoFileResponse == [status |-> 0]

FilesInit ==
  /\ fs = [p \in Paths |-> Absent]
  /\ freq = NoFileRequest
  /\ fresp = NoFileResponse
  /\ fwritten = [p \in Paths |-> {}]

Init ==
  /\ SessionInit
  /\ CallsInit
  /\ FilesInit
  /\ xreq = NoRequest
  /\ xphase = "idle"
  /\ xproc = "none"
  /\ xelapsed = 0
  /\ xcaptured = [ch \in Channels |-> <<>>]
  /\ xresult = NoResult

\* ---------------------------------------------------------------- client

ClientSubmit(text) ==
  /\ UNCHANGED ExecAndFiles
  /\ conn = "open"
  /\ pc \notin Terminated
  /\ nsub < MaxSubs
  /\ inbox' = Append(inbox, text)
  /\ nsub' = nsub + 1
  /\ UNCHANGED <<conn, pc, cmdNo, data, cmd, cwd, procs, proc, drain, held,
                 exit_code, sent>>

ClientDisconnect ==
  /\ UNCHANGED ExecAndFiles
  /\ conn = "open"
  /\ pc \notin Terminated
  /\ conn' = "closed"
  /\ UNCHANGED <<inbox, nsub, pc, cmdNo, data, cmd, cwd, procs, proc, drain, held,
                 exit_code, sent>>

\* -------------------------------------------------------------- ws_shell

\* Where the handler goes on a decoded submission: an exception other than
\* WebSocketDisconnect leaves the handler ("error").
AfterDecode(text) ==
  LET r == JsonLoads(text) IN
  IF r.raised THEN "error"
  ELSE IF ~r.isdict THEN "error"
  ELSE "spawn"

\* data = await ws.receive_text(); msg = json.loads(data); cmd = ...; cwd = ...
Receive ==
  /\ UNCHANGED ExecAndFiles
  /\ pc = "receive"
  /\ \/ /\ inbox # <<>>
        /\ LET text == Head(inbox)
               r == JsonLoads(text) IN
           /\ inbox' = Tail(inbox)
           /\ cmdNo' = cmdNo + 1
           /\ data' = text
           /\ pc' = AfterDecode(text)
           /\ cmd' = IF AfterDecode(text) = "spawn"
                     THEN Get(r.value, "command", "") ELSE cmd
           /\ cwd' = IF AfterDecode(text) = "spawn"
                     THEN Get(r.value, "cwd", PROJECT_DIR) ELSE cwd
     \/ /\ inbox = <<>>
        /\ conn = "closed"
        /\ pc' = "closed"
        /\ UNCHANGED <<inbox, cmdNo, data, cmd, cwd>>
  /\ UNCHANGED <<conn, nsub, procs, proc, drain, held, exit_code, sent>>

\* proc = await asyncio.create_subprocess_shell(cmd, ..., cwd=cwd)
Spawn ==
  /\ UNCHANGED ExecAndFiles
  /\ pc = "spawn"
  /\ \/ /\ DirExists(cwd)
        /\ \E op \in FirstOps(cmd) : procs' = Append(procs, NewProc(cmdNo, cmd, op))
        /\ proc' = Len(procs) + 1
        /\ drain' = [ch \in Channels |-> "read"]
        /\ pc' = "gather"
     \/ /\ ~DirExists(cwd)
        /\ pc' = "error"
        /\ UNCHANGED <<procs, proc, drain>>
  /\ UNCHANGED <<conn, inbox, nsub, cmdNo, data, cmd, cwd, held, exit_code, sent>>

\* fault injected: stream(proc.stdout) is awaited to its end before
\* stream(proc.stderr) starts
SequentialRuns(ch) ==
  /\ drain[ch] \in {"read", "send"}
  /\ ch = "stderr" => drain["stdout"] = "done"

\* asyncio.gather runs both stream() tasks at once
GatherRuns(ch) == drain[ch] \in {"read", "send"}

\* async for line in pipe
DrainRead(ch) ==
  /\ UNCHANGED ExecAndFiles
  /\ GatherRuns(ch)
  /\ drain[ch] = "read"
  /\ LET p == procs[proc] IN
     \/ /\ p.pipe[ch] # <<>>
        /\ held' = [held EXCEPT ![ch] = Head(p.pipe[ch])]
        /\ procs' = [procs EXCEPT ![proc].pipe[ch] = Tail(p.pipe[ch])]
        /\ drain' = [drain EXCEPT ![ch] = "send"]
     \/ /\ p.pipe[ch] = <<>>
        /\ ~p.open
        /\ drain' = [drain EXCEPT ![ch] = "done"]
        /\ UNCHANGED <<held, procs>>
  /\ UNCHANGED <<conn, inbox, nsub, pc, cmdNo, data, cmd, cwd, proc, exit_code, sent>>

\* await ws.send_json({"stream": stream_name, "line": ...})
DrainSend(ch) ==
  /\ UNCHANGED ExecAndFiles
  /\ GatherRuns(ch)
  /\ drain[ch] = "send"
  /\ \/ /\ Sendable
        /\ sent' = Emit(OutputLine(cmdNo, ch, Rstrip(Decode(held[ch]))))
        /\ drain' = [drain EXCEPT ![ch] = "read"]
     \/ /\ ~Sendable
        /\ drain' = [drain EXCEPT ![ch] = "raised"]
        /\ UNCHANGED sent
  /\ held' = [held EXCEPT ![ch] = <<>>]
  /\ UNCHANGED <<conn, inbox, nsub, pc, cmdNo, data, cmd, cwd, procs, proc, exit_code>>

\* fault injected: the handler goes on as soon as one task has returned
GatherReturnsFirst == \E ch \in Channels : drain[ch] = "done"

\* gather returns once both tasks have returned
GatherReturns == \A ch \in Channels : drain[ch] = "done"

\* await asyncio.gather(...): the first exception of a task is raised in the
\* handler at once, the other task is left running
Gather ==
  /\ UNCHANGED ExecAndFiles
  /\ pc = "gather"
  /\ \/ /\ \E ch \in Channels : drain[ch] = "raised"
        /\ pc' = "closed"
     \/ /\ \A ch \in Channels : drain[ch] # "raised"
        /\ GatherReturns
        /\ pc' = "wait"
  /\ UNCHANGED <<conn, inbox, nsub, cmdNo, data, cmd, cwd, procs, proc, drain, held,
                 exit_code, sent>>

\* fault injected: the handler does not wait for the process
WaitSkipped == TRUE

\* proc.wait() returns once the process has exited
WaitReturns == procs[proc].state = "exited"

\* exit_code = await proc.wait()
Wait ==
  /\ UNCHANGED ExecAndFiles
  /\ pc = "wait"
  /\ WaitReturns
  /\ exit_code' = procs[proc].code
  /\ pc' = "send_done"
  /\ UNCHANGED <<conn, inbox, nsub, cmdNo, data, cmd, cwd, procs, proc, drain, held,
                 sent>>

\* fault injected: the Completion is sent again
AfterCompletionAgain == "send_done"

\* where the handler goes after sending the Completion
AfterCompletion == "receive"

\* await ws.send_json({"done": True, "exit_code": exit_code})
SendDone ==
  /\ UNCHANGED ExecAndFiles
  /\ pc = "send_done"
  /\ \/ /\ Sendable
        /\ sent' = Emit(Completion(cmdNo, exit_code))
        /\ pc' = AfterCompletion
     \/ /\ ~Sendable
        /\ pc' = "closed"
        /\ UNCHANGED sent
  /\ UNCHANGED <<conn, inbox, nsub, cmdNo, data, cmd, cwd, procs, proc, drain, held,
                 exit_code>>

\* ------------------------------------------------------------ subprocess

ChildWrite(i, ch) ==
  /\ UNCHANGED ExecAndFiles
  /\ Live(i)
  /\ procs[i].next = WriteOp(ch)
  /\ Len(procs[i].pipe[ch]) < PipeCap
  /\ LET w == [procs[i].written EXCEPT ![ch] = @ + 1] IN
     \E op \in OpsAfter(Written(procs) + 1, TRUE) :
       procs' = [procs EXCEPT ![i].written = w,
                              ![i].pipe[ch] = Append(@, LineOf(w[ch])),
                              ![i].next = op]
  /\ UNCHANGED <<conn, inbox, nsub, pc, cmdNo, data, cmd, cwd, proc, drain, held,
                 exit_code, sent>>

\* the child closes its ends of both pipes and goes on running
ChildClose(i) ==
  /\ UNCHANGED ExecAndFiles
  /\ Live(i)
  /\ procs[i].next = "close"
  /\ \E op \in OpsAfter(Written(procs), FALSE) :
       procs' = [procs EXCEPT ![i].open = FALSE, ![i].next = op]
  /\ UNCHANGED <<conn, inbox, nsub, pc, cmdNo, data, cmd, cwd, proc, drain, held,
                 exit_code, sent>>

ChildExit(i, c) ==
  /\ UNCHANGED ExecAndFiles
  /\ Live(i)
  /\ procs[i].next = "exit"
  /\ c \in CodesOf(procs[i].command)
  /\ procs' = [procs EXCEPT ![i].state = "exited", ![i].open = FALSE,
                            ![i].code = c, ![i].next = "none"]
  /\ UNCHANGED <<conn, inbox, nsub, pc, cmdNo, data, cmd, cwd, proc, drain, held,
                 exit_code, sent>>


\* --------------------------------------------------------------- run_cmd

\* cwd=cwd or str(PROJECT_DIR)
CwdOf(req) == IF req.cwd = None THEN PROJECT_DIR ELSE req.cwd

\* the exceptions run_cmd catches
RunCmdCatches(exc) == exc = "TimeoutExpired"

Raised(exc) == [exception |-> exc]

\* fault injected: stderr is cut at the limit of stdout
NormalResultOneLimit(c, seconds) ==
  [exit_code |-> c.code,
   stdout |-> TailOf(c.out, STDOUT_LIMIT),
   stderr |-> TailOf(c.err, STDOUT_LIMIT),
   duration_ms |-> seconds * 1000]

\* fault injected: the exit code of the shell is not passed on
NormalResultNoCode(c, seconds) ==
  [exit_code |-> 0,
   stdout |-> TailOf(c.out, STDOUT_LIMIT),
   stderr |-> TailOf(c.err, STDERR_LIMIT),
   duration_ms |-> seconds * 1000]

\* the result of a call in which subprocess.run returned
NormalResult(c, seconds) ==
  [exit_code |-> c.code,
   stdout |-> TailOf(c.out, STDOUT_LIMIT),
   stderr |-> TailOf(c.err, STDERR_LIMIT),
   duration_ms |-> seconds * 1000]

\* fault injected: the timeout result carries what was captured before the timeout
TimeoutResultPartial(seconds) ==
  [exit_code |-> TIMEOUT_CODE, stdout |-> xcaptured["stdout"],
   stderr |-> TIMEOUT_TEXT, duration_ms |-> seconds * 1000]

\* the result of a call in which subprocess.run raised TimeoutExpired
TimeoutResult(seconds) ==
  [exit_code |-> TIMEOUT_CODE, stdout |-> <<>>, stderr |-> TIMEOUT_TEXT,
   duration_ms |-> seconds * 1000]

\* subprocess.run(...) starts the shell in the working directory, or raises
RunCmdSpawn ==
  /\ xphase = "call"
  /\ \/ /\ DirExists(CwdOf(xreq))
        /\ xphase' = "running"
        /\ xproc' = "running"
        /\ UNCHANGED xresult
     \/ /\ ~DirExists(CwdOf(xreq))
        /\ xphase' = IF RunCmdCatches("FileNotFoundError")
                     THEN "returned" ELSE "raised"
        /\ xresult' = IF RunCmdCatches("FileNotFoundError")
                      THEN TimeoutResult(xelapsed)
                      ELSE Raised("FileNotFoundError")
        /\ UNCHANGED xproc
  /\ UNCHANGED <<xreq, xelapsed, xcaptured>>
  /\ UNCHANGED SessionAndFiles

\* a second passes while the command runs
RunCmdTick ==
  /\ xphase = "running"
  /\ xelapsed < xreq.timeout
  /\ xelapsed < xreq.command.runs
  /\ xelapsed' = xelapsed + 1
  /\ xcaptured' = [stdout |-> Prefix(xreq.command.out, xelapsed + 1),
                   stderr |-> Prefix(xreq.command.err, xelapsed + 1)]
  /\ UNCHANGED <<xreq, xphase, xproc, xresult>>
  /\ UNCHANGED SessionAndFiles

\* the command exits within the timeout: text=True decodes what it wrote
RunCmdExit ==
  /\ xphase = "running"
  /\ xelapsed = xreq.command.runs
  /\ xproc' = "exited"
  /\ xcaptured' = [stdout |-> xreq.command.out, stderr |-> xreq.command.err]
  /\ \/ /\ xreq.command.utf8
        /\ xphase' = "returned"
        /\ xresult' = NormalResult(xreq.command, xelapsed)
     \/ /\ ~xreq.command.utf8
        /\ xphase' = IF RunCmdCatches("UnicodeDecodeError")
                     THEN "returned" ELSE "raised"
        /\ xresult' = IF RunCmdCatches("UnicodeDecodeError")
                      THEN TimeoutResult(xelapsed)
                      ELSE Raised("UnicodeDecodeError")
  /\ UNCHANGED <<xreq, xelapsed>>
  /\ UNCHANGED SessionAndFiles

\* the timeout passes first: subprocess.run kills the shell and raises
\* TimeoutExpired
RunCmdTimeout ==
  /\ xphase = "running"
  /\ xelapsed = xreq.timeout
  /\ xreq.command.runs > xreq.timeout
  /\ xproc' = "killed"
  /\ xphase' = IF RunCmdCatches("TimeoutExpired") THEN "returned" ELSE "raised"
  /\ xresult' = IF RunCmdCatches("TimeoutExpired")
                THEN TimeoutResult(xelapsed)
                ELSE Raised("TimeoutExpired")
  /\ UNCHANGED <<xreq, xelapsed, xcaptured>>
  /\ UNCHANGED SessionAndFiles

\* ------------------------------------------------------------------ spec

\* the handler task and the two drain tasks
Handler == Receive \/ Spawn \/ Gather \/ Wait \/ SendDone
Drain(ch) == DrainRead(ch) \/ DrainSend(ch)

ChildStep ==
  \/ \E i \in 1..Len(procs), ch \in Channels : ChildWrite(i, ch)
  \/ \E i \in 1..Len(procs) : ChildClose(i)
  \/ \E i \in 1..Len(procs), c \in ExitCodes : ChildExit(i, c)

Next ==
  \/ \E text \in Submissions : ClientSubmit(text)
  \/ ClientDisconnect
  \/ Receive
  \/ Spawn
  \/ \E ch \in Channels : DrainRead(ch)
  \/ \E ch \in Channels : DrainSend(ch)
  \/ Gather
  \/ Wait
  \/ SendDone
  \/ \E i \in 1..Len(procs), ch \in Channels : ChildWrite(i, ch)
  \/ \E i \in 1..Len(procs) : ChildClose(i)
  \/ \E i \in 1..Len(procs), c \in ExitCodes : ChildExit(i, c)

Spec == Init /\ [][Next]_vars

\* The event loop runs every task that can run, the operating system runs
\* every process that can run, and the client owes nothing.
FairSpec ==
  /\ Spec
  /\ WF_vars(Handler)
  /\ \A ch \in Channels : WF_vars(Drain(ch))
  /\ WF_vars(ChildStep)

\* One call of run_cmd, for every request.
InitExec ==
  /\ SessionInit
  /\ CallsInit
  /\ FilesInit
  /\ xreq \in Requests
  /\ xphase = "call"
  /\ xproc = "none"
  /\ xelapsed = 0
  /\ xcaptured = [ch \in Channels |-> <<>>]
  /\ xresult = NoResult

NextExec ==
  \/ RunCmdSpawn
  \/ RunCmdTick
  \/ RunCmdExit
  \/ RunCmdTimeout

SpecExec == InitExec /\ [][NextExec]_vars


\* ------------------------------------------------- run_cmd, long output

\* how far beyond a limit the captured texts reach
MaxOver == 2

\* a text of n characters, the letters a..z in rotation (as a tuple)
TextOfLen(n) == SubSeq([i \in 1..n |-> 97 + (i % 26)], 1, n)

\* texts one character short of a limit, at the limit, and beyond it
TextsAround(limit) == {TextOfLen(n) : n \in (limit - 1)..(limit + MaxOver)}

\* commands that write, on one stream, about as much as run_cmd keeps of it
LongCommands ==
  [out : TextsAround(STDOUT_LIMIT), err : TextsUpTo(1),
   utf8 : BOOLEAN, code : {0, 1}, runs : 0..2]
  \cup
  [out : TextsUpTo(1), err : TextsAround(STDERR_LIMIT),
   utf8 : BOOLEAN, code : {0, 1}, runs : 0..2]

LongRequests == [command : LongCommands, cwd : {None}, timeout : {1}]

\* One call of run_cmd, for every request with a long output.
InitLong ==
  /\ SessionInit
  /\ CallsInit
  /\ FilesInit
  /\ xreq \in LongRequests
  /\ xphase = "call"
  /\ xproc = "none"
  /\ xelapsed = 0
  /\ xcaptured = [ch \in Channels |-> <<>>]
  /\ xresult = NoResult

SpecLong == InitLong /\ [][NextExec]_vars

\* ------------------------------------------------- run_cmd, concurrently

\* the commands and requests of the concurrent calls
ConcCommands ==
  [out : TextsUpTo(1), err : {<<>>}, utf8 : BOOLEAN, code : {0, 1}, runs : 1..2]

ConcRequests == [command : ConcCommands, cwd : {None, MissingDir}, timeout : {1}]

\* fault injected: the captured output is kept in one place for all calls
CapturedShared(c) == calls[1].captured

\* what call c's subprocess.run has captured: the call's own local r
Captured(c) == calls[c].captured

\* the command of call c with what was captured of it
Completed(c) ==
  [calls[c].req.command EXCEPT !.out = Captured(c)["stdout"],
                               !.err = Captured(c)["stderr"]]

\* call c alone takes a step to the record new
CallStep(c, new) ==
  /\ calls' = [calls EXCEPT ![c] = new]
  /\ UNCHANGED <<svars, xvars, fvars>>

\* run_cmd in the thread of call c: subprocess.run starts the shell, or raises
CallSpawn(c) ==
  /\ calls[c].phase = "call"
  /\ \/ /\ DirExists(CwdOf(calls[c].req))
        /\ CallStep(c, [calls[c] EXCEPT !.phase = "running", !.proc = "running"])
     \/ /\ ~DirExists(CwdOf(calls[c].req))
        /\ CallStep(c, [calls[c] EXCEPT
             !.phase = IF RunCmdCatches("FileNotFoundError")
                       THEN "returned" ELSE "raised",
             !.result = IF RunCmdCatches("FileNotFoundError")
                        THEN TimeoutResult(calls[c].elapsed)
                        ELSE Raised("FileNotFoundError")])

\* a second passes for call c while its command runs
CallTick(c) ==
  /\ calls[c].phase = "running"
  /\ calls[c].elapsed < calls[c].req.timeout
  /\ calls[c].elapsed < calls[c].req.command.runs
  /\ CallStep(c, [calls[c] EXCEPT
       !.elapsed = @ + 1,
       !.captured = [stdout |-> Prefix(calls[c].req.command.out, calls[c].elapsed + 1),
                     stderr |-> Prefix(calls[c].req.command.err, calls[c].elapsed + 1)]])

\* the command of call c has exited within the timeout; subprocess.run
\* collects the rest of its output
CallCollect(c) ==
  /\ calls[c].phase = "running"
  /\ calls[c].proc = "running"
  /\ calls[c].elapsed = calls[c].req.command.runs
  /\ CallStep(c, [calls[c] EXCEPT
       !.proc = "exited",
       !.captured = [stdout |-> calls[c].req.command.out,
                     stderr |-> calls[c].req.command.err]])

\* subprocess.run returns to call c, or raises on undecodable output, and
\* run_cmd builds the result
CallExit(c) ==
  /\ calls[c].phase = "running"
  /\ calls[c].proc = "exited"
  /\ \/ /\ calls[c].req.command.utf8
        /\ CallStep(c, [calls[c] EXCEPT
             !.phase = "returned",
             !.result = NormalResult(Completed(c), calls[c].elapsed)])
     \/ /\ ~calls[c].req.command.utf8
        /\ CallStep(c, [calls[c] EXCEPT
             !.phase = IF RunCmdCatches("UnicodeDecodeError")
                       THEN "returned" ELSE "raised",
             !.result = IF RunCmdCatches("UnicodeDecodeError")
                        THEN TimeoutResult(calls[c].elapsed)
                        ELSE Raised("UnicodeDecodeError")])

\* the timeout of call c passes first
CallTimeout(c) ==
  /\ calls[c].phase = "running"
  /\ calls[c].proc = "running"
  /\ calls[c].elapsed = calls[c].req.timeout
  /\ calls[c].req.command.runs > calls[c].req.timeout
  /\ CallStep(c, [calls[c] EXCEPT
       !.proc = "killed",
       !.phase = IF RunCmdCatches("TimeoutExpired") THEN "returned" ELSE "raised",
       !.result = IF RunCmdCatches("TimeoutExpired")
                  THEN TimeoutResult(calls[c].elapsed)
                  ELSE Raised("TimeoutExpired")])

\* Two calls at the same time, for every pair of requests, next to a call
\* of run_cmd on its own (xreq) with the request of one of the two.
InitConc ==
  /\ SessionInit
  /\ FilesInit
  /\ \E r \in [CallIds -> ConcRequests] :
       calls = [c \in CallIds |-> [NoCall EXCEPT !.req = r[c], !.phase = "call"]]
  /\ \E c \in CallIds : xreq = calls[c].req
  /\ xphase = "call"
  /\ xproc = "none"
  /\ xelapsed = 0
  /\ xcaptured = [ch \in Channels |-> <<>>]
  /\ xresult = NoResult

NextConc ==
  \/ \E c \in CallIds : CallSpawn(c)
  \/ \E c \in CallIds : CallTick(c)
  \/ \E c \in CallIds : CallCollect(c)
  \/ \E c \in CallIds : CallExit(c)
  \/ \E c \in CallIds : CallTimeout(c)
  \/ RunCmdSpawn
  \/ RunCmdTick
  \/ RunCmdExit
  \/ RunCmdTimeout

SpecConc == InitConc /\ [][NextConc]_vars

\* ---------------------------------------------------------------- files

\* the longest file, and the longest content written, in characters
MaxFile == 3

\* carriage return
CR == 13

\* the characters files are made of: a letter and the two line endings
\* (ASCII, so a character and its UTF-8 byte are the same number)
FileChars == {97, NL, CR}

FileTexts == UNION {[1..k -> FileChars] : k \in 0..MaxFile}

\* FileReadRequest and FileWriteRequest: offset and limit are any int
Offsets == (0 - 1)..(MaxFile + 1)
Limits == (0 - 1)..MaxFile
ReadRequests == [op : {"read"}, path : Paths, offset : Offsets, limit : Limits]
WriteRequests == [op : {"write"}, path : Paths, content : FileTexts]

\* Path.write_text opens the file in text mode with newline=None: every "\n"
\* is written as os.linesep, which is "\n" on the agent's Linux; nothing else
\* is translated
LineSep == <<NL>>

RECURSIVE WriteBytes(_)
WriteBytes(content) ==
  IF content = <<>> THEN <<>>
  ELSE (IF Head(content) = NL THEN LineSep ELSE <<Head(content)>>)
       \o WriteBytes(Tail(content))

\* text mode with newline=None on input (universal newlines): "\r\n" and a
\* lone "\r" are both read as "\n"
RECURSIVE UniversalNewlines(_)
UniversalNewlines(s) ==
  IF s = <<>> THEN <<>>
  ELSE IF Head(s) = CR
       THEN <<NL>> \o UniversalNewlines(IF Len(s) > 1 /\ s[2] = NL
                                        THEN Tail(Tail(s)) ELSE Tail(s))
       ELSE <<Head(s)>> \o UniversalNewlines(Tail(s))

\* p.read_text(errors="replace")
ReadText(bytes) == UniversalNewlines(Decode(bytes))

\* the line boundaries of str.splitlines: \n \v \f \r \x1c \x1d \x1e \x85
\* U+2028 U+2029, and \r\n as one
LineBreaks == {10, 11, 12, 13, 28, 29, 30, 133, 8232, 8233}

\* the lines of s after the line being collected, cur
RECURSIVE SplitFrom(_, _, _)
SplitFrom(s, cur, keepends) ==
  IF s = <<>> THEN (IF cur = <<>> THEN <<>> ELSE <<cur>>)
  ELSE IF Head(s) \in LineBreaks
       THEN LET crlf == Head(s) = CR /\ Len(s) > 1 /\ s[2] = NL
                end == IF crlf THEN <<CR, NL>> ELSE <<Head(s)>>
                rest == IF crlf THEN Tail(Tail(s)) ELSE Tail(s)
            IN <<IF keepends THEN cur \o end ELSE cur>>
               \o SplitFrom(rest, <<>>, keepends)
       ELSE SplitFrom(Tail(s), Append(cur, Head(s)), keepends)

\* text.splitlines(keepends)
SplitLines(text, keepends) == SplitFrom(text, <<>>, keepends)

\* "".join(lines)
RECURSIVE Join(_)
Join(lines) == IF lines = <<>> THEN <<>> ELSE Head(lines) \o Join(Tail(lines))

\* fault injected: the offset counts lines from one
DropLinesFromOne(lines, n) == SubSeq(lines, n, Len(lines))

\* lines[n:] for n > 0
DropLines(lines, n) == SubSeq(lines, n + 1, Len(lines))

\* lines[:n] for n > 0
TakeLines(lines, n) == SubSeq(lines, 1, IF n < Len(lines) THEN n ELSE Len(lines))

\* raise HTTPException(code, ...), or the 500 of an exception nothing catches
HttpError(code) == [status |-> code]

\* fault injected: the existence check is passed by every path
ExistsAlways(entry) == TRUE

\* p.exists()
Exists(entry) == entry.kind # "absent"

\* p.is_file()
IsFile(entry) == entry.kind = "file"

\* the response of read_file to req when the path holds entry
ReadResponse(entry, req) ==
  IF ~Exists(entry) THEN HttpError(404)
  ELSE IF ~IsFile(entry) THEN HttpError(400)
  ELSE LET text == ReadText(entry.bytes)
           lines == SplitLines(text, TRUE)
           from == IF req.offset > 0 THEN DropLines(lines, req.offset) ELSE lines
           upto == IF req.limit > 0 THEN TakeLines(from, req.limit) ELSE from
       IN [status |-> 200, path |-> req.path, content |-> Join(upto),
           total_lines |-> Len(SplitLines(text, FALSE))]

\* POST /file/read
ReadFile(req) ==
  /\ freq' = req
  /\ fresp' = ReadResponse(fs[req.path], req)
  /\ UNCHANGED <<fs, fwritten>>
  /\ UNCHANGED <<svars, xvars, yvars>>

\* POST /file/write: the parent directory is made if missing, and the file
\* is created or truncated and written; on a directory write_text raises
\* IsADirectoryError, which nothing catches
WriteFile(req) ==
  /\ freq' = req
  /\ \/ /\ fs[req.path].kind = "dir"
        /\ fresp' = HttpError(500)
        /\ UNCHANGED <<fs, fwritten>>
     \/ /\ fs[req.path].kind # "dir"
        /\ fs' = [fs EXCEPT ![req.path] = File(WriteBytes(req.content))]
        /\ fwritten' = [fwritten EXCEPT ![req.path] = {req.content}]
        /\ fresp' = [status |-> 200, path |-> req.path,
                     bytes_written |-> Len(req.content)]
  /\ UNCHANGED <<svars, xvars, yvars>>

\* Requests to /file/read and /file/write, on every file system.
InitFile ==
  /\ SessionInit
  /\ xreq = NoRequest
  /\ xphase = "idle"
  /\ xproc = "none"
  /\ xelapsed = 0
  /\ xcaptured = [ch \in Channels |-> <<>>]
  /\ xresult = NoResult
  /\ CallsInit
  /\ fs \in [Paths -> {Absent, Directory} \cup {File(b) : b \in FileTexts}]
  /\ freq = NoFileRequest
  /\ fresp = NoFileResponse
  /\ fwritten = [p \in Paths |-> {}]

NextFile ==
  \/ \E req \in ReadRequests : ReadFile(req)
  \/ \E req \in WriteRequests : WriteFile(req)

SpecFile == InitFile /\ [][NextFile]_vars

\* ---------------------------------------------------------------- claims

Indices == DOMAIN sent
CompletionsOf(k) ==
  Cardinality({i \in Indices : IsCompletion(sent[i]) /\ sent[i].cmd = k})
HasCompletion(k) == CompletionsOf(k) >= 1
IsLine(m, k, ch) == ~IsCompletion(m) /\ m.cmd = k /\ m.stream = ch
LiveProcs == {i \in 1..Len(procs) : Live(i)}

\* C1: no command ever has two Completion messages; a command the session
\* has gone on past (it took a later submission, or it is waiting for one)
\* has exactly one; and a command without a Completion is the current one,
\* still being processed or cut short by the session's termination.
C1_OneCompletion ==
  /\ \A i \in Indices : sent[i].cmd \in 1..cmdNo
  /\ \A k \in 1..cmdNo :
       /\ CompletionsOf(k) <= 1
       /\ (k < cmdNo \/ pc = "receive") => CompletionsOf(k) = 1
       /\ CompletionsOf(k) = 0 =>
            k = cmdNo /\ pc \in {"spawn", "gather", "wait", "send_done"} \cup Terminated

\* two commands completed on one connection, each with its one Completion
C1_Witness ==
  /\ cmdNo = 2
  /\ pc = "receive"
  /\ CompletionsOf(1) = 1
  /\ CompletionsOf(2) = 1
  /\ Len(sent) > 2

\* no message of a command follows the command's Completion
NothingAfterCompletion ==
  \A i, j \in Indices :
    (i < j /\ IsCompletion(sent[i])) => sent[j].cmd > sent[i].cmd

\* the step that sends a Completion starts where both drains have reached
\* end-of-stream, both pipes are empty and the process has exited and been
\* waited on
CompletionStep ==
  (Len(sent') = Len(sent) + 1 /\ \E i \in DOMAIN sent' :
      IsCompletion(sent'[i]) /\ CompletionsOf(sent'[i].cmd) = 0)
  => /\ \A ch \in Channels :
          drain[ch] = "done" /\ procs[proc].pipe[ch] = <<>> /\ held[ch] = <<>>
     /\ procs[proc].state = "exited"
     /\ exit_code = procs[proc].code
     /\ pc = "send_done"

\* C2: the Completion of a command is sent only after both drains have
\* reached end-of-stream and the process has been waited on, and no
\* OutputLine of the command is sent after it.
C2_CompletionLast == []NothingAfterCompletion /\ [][CompletionStep]_vars

\* a command wrote to both channels and its Completion follows both lines
C2_Witness ==
  \E i, j, d \in Indices :
    /\ IsLine(sent[i], 1, "stdout")
    /\ IsLine(sent[j], 1, "stderr")
    /\ IsCompletion(sent[d]) /\ sent[d].cmd = 1
    /\ i < d /\ j < d


\* C3: once the connection is closed, every subprocess the session has
\* spawned stops running.
C3_NoLeak == (conn = "closed" /\ LiveProcs # {}) ~> (LiveProcs = {})

\* C4: after an undecodable submission the session is waiting for the next
\* submission, unless the connection is closed; it has not ended in an error.
C4_MalformedNonFatal ==
  data = Malformed => pc = "receive" \/ (pc = "closed" /\ conn = "closed")

\* C5: after a spawn in a missing working directory the handler has not
\* ended in an error, and on an open connection the command has got its
\* Completion-like event.
C5_SpawnFailureReported ==
  (data.kind = "object" /\ ~DirExists(cwd) /\ pc # "spawn")
  => /\ pc # "error"
     /\ conn = "open" => HasCompletion(cmdNo)

\* C6: run_cmd raises nothing, and a call whose working directory does not
\* exist returns a result with a non-zero exit code and a non-empty stderr.
C6_NeverThrows ==
  /\ xphase # "raised"
  /\ (xphase = "returned" /\ ~DirExists(CwdOf(xreq)))
     => xresult.exit_code # 0 /\ xresult.stderr # <<>>

\* the current child has committed to never exiting
ChildHangs == proc > 0 /\ procs[proc].next = "hang"

C8_OneAtATime ==
  /\ Cardinality(LiveProcs) <= 1
  /\ \A i, j \in Indices : i < j => sent[i].cmd <= sent[j].cmd
  /\ \A i \in 1..Len(procs) :
       procs[i].no < cmdNo => ~Live(i) /\ HasCompletion(procs[i].no)
  /\ \A i \in Indices : sent[i].cmd <= cmdNo

\* a submission is waiting while the first command, which has already sent
\* output, is still running
C8_Witness ==
  /\ pc = "gather"
  /\ inbox # <<>>
  /\ Live(proc)
  /\ \E i \in Indices : sent[i].cmd = cmdNo

\* the lines sent so far for command k on channel ch
LinesOf(k, ch) ==
  LET F[n \in 0..Len(sent)] ==
        IF n = 0 THEN <<>>
        ELSE IF IsLine(sent[n], k, ch) THEN Append(F[n - 1], sent[n].line)
        ELSE F[n - 1]
  IN F[Len(sent)]

C10_Timeout ==
  (xphase \in {"returned", "raised"} /\ xproc # "none"
     /\ xreq.command.runs > xreq.timeout)
  => /\ xphase = "returned"
     /\ xproc = "killed"
     /\ xresult.exit_code = 124
     /\ xresult.stdout = <<>>
     /\ xresult.stderr = <<84, 73, 77, 69, 79, 85, 84>>

\* a command that had written to stdout timed out
C10_Witness ==
  /\ xphase = "returned"
  /\ xreq.command.runs > xreq.timeout
  /\ xcaptured["stdout"] # <<>>
  /\ xresult.stdout = <<>>
  /\ xresult.exit_code = 124

\* C11: once the connection is closed the session ends (its handler has
\* returned or died) and stays ended, also when the running subprocess
\* writes nothing and never exits.
C11_DisconnectCloses == conn = "closed" ~> [](pc \in Terminated)

\* C12: a call whose command exited within the timeout returns as stdout the
\* captured stdout when that has at most 50,000 characters and otherwise
\* exactly its last 50,000 characters, and as stderr the same of the captured
\* stderr with 10,000.
C12_Truncation ==
  (xphase = "returned" /\ xproc = "exited")
  => LET out == xcaptured["stdout"]
         err == xcaptured["stderr"]
     IN /\ xresult.stdout =
             IF Len(out) <= 50000 THEN out
             ELSE [i \in 1..50000 |-> out[Len(out) - 50000 + i]]
        /\ xresult.stderr =
             IF Len(err) <= 10000 THEN err
             ELSE [i \in 1..10000 |-> err[Len(err) - 10000 + i]]

\* the captured stderr was longer than what is kept, and was cut
C12_Witness ==
  /\ xphase = "returned"
  /\ xproc = "exited"
  /\ Len(xcaptured["stderr"]) > 10000
  /\ Len(xresult.stderr) = 10000
  /\ xresult.stderr # xcaptured["stderr"]

\* C13: a read with offset 0 and limit 0 of a path that write_file has
\* written returns as content exactly the content C of the last write, and
\* as total_lines the number of lines of C, whatever line endings C has.
C13_RoundTrip ==
  \A p \in Paths : \A C \in fwritten[p] :
    (freq.op = "read" /\ freq.path = p /\ freq.offset = 0 /\ freq.limit = 0)
    => /\ fresp.status = 200
       /\ fresp.content = C
       /\ fresp.total_lines = Len(SplitLines(C, FALSE))

\* a call has ended: run_cmd has returned or raised
Ended(phase) == phase \in {"returned", "raised"}

NoContent == DOMAIN fresp = {"status"}

\* a step that serves a read leaves every path as it was
ReadChangesNothing == freq'.op = "read" => fs' = fs

\* C16: a read of a path that does not exist is answered 404 and a read of
\* a directory 400, in both cases without content, and serving a read
\* changes nothing in the file system.
C16_ReadErrors ==
  /\ [](freq.op = "read" =>
          /\ fs[freq.path] = Absent => (fresp.status = 404 /\ NoContent)
          /\ fs[freq.path] = Directory => (fresp.status = 400 /\ NoContent))
  /\ [][ReadChangesNothing]_vars

\* a read of a missing path has been answered 404
C16_Witness ==
  /\ freq.op = "read"
  /\ fs[freq.path] = Absent
  /\ fresp.status = 404

\* C17, as claimed: a call whose command exited within the timeout returns
\* the command's exit code, and a result with exit_code 124 is returned only
\* when the command ran longer than the timeout.
C17_Reserved ==
  xphase = "returned"
  => /\ xproc = "exited" => xresult.exit_code = xreq.command.code
     /\ xresult.exit_code = 124 => xreq.command.runs > xreq.timeout

\* C17, amended: a call whose command exited within the timeout returns the
\* command's exit code, and a result with exit_code 124 is returned only
\* when the command ran longer than the timeout or itself exited with 124.
C17_ExitCode ==
  xphase = "returned"
  => /\ xproc = "exited" => xresult.exit_code = xreq.command.code
     /\ xresult.exit_code = 124 =>
          \/ xreq.command.runs > xreq.timeout
          \/ (xproc = "exited" /\ xreq.command.code = 124)

\* a command that exited with code 124 within the timeout: the result
\* carries exit_code 124 and the command's output
C17_Witness ==
  /\ xphase = "returned"
  /\ xproc = "exited"
  /\ xreq.command.runs <= xreq.timeout
  /\ xreq.command.code = 124
  /\ xresult.exit_code = 124
  /\ xresult.stdout # <<>>

\* a submission is well-formed: a JSON object with a non-empty command
WellFormed(text) ==
  /\ text.kind = "object"
  /\ "command" \in DOMAIN text.obj
  /\ text.obj.command # ""

\* the k-th submission of the connection is well-formed and has been sent
\* and not yet received
Waiting(k) ==
  /\ k > cmdNo
  /\ k - cmdNo <= Len(inbox)
  /\ WellFormed(inbox[k - cmdNo])

\* C18: with fair scheduling, every well-formed submission sent on the
\* connection, the first and every later one, is eventually spawned and
\* gets its Completion, unless the connection closes or a subprocess never
\* exits.
C18_NextSubmissionProcessed ==
  \A k \in 1..MaxSubs :
    Waiting(k) ~> (HasCompletion(k) \/ conn = "closed" \/ ChildHangs)

\* the submission last received has no non-empty command: it is no JSON, no
\* object, an object without "command", or one whose command is empty
NoCommandGiven ==
  \/ data.kind \in {"malformed", "array"}
  \/ data.kind = "object" /\ Get(data.obj, "command", "") = ""

\* C19: a submission without a non-empty command never leaves Idle: no
\* subprocess is spawned for it and no Completion is sent for it.
C19_NoCommandIgnored ==
  /\ \A i \in 1..Len(procs) : procs[i].command # ""
  /\ NoCommandGiven => (pc \notin {"gather", "wait", "send_done"}
                        /\ ~HasCompletion(cmdNo))

\* C20: a read of a file is answered 200, never an error; total_lines is the
\* number of lines of the whole file; and the content is the lines from
\* index offset (from the first line for an offset of 0 or less) on, at
\* most limit of them when limit is positive and all of them when limit is
\* 0 (or less), joined: nothing when the offset is at or beyond the end.
\* The lines are those of the file's text as it is read.
C20_OffsetLimit ==
  \A p \in Paths :
    (freq.op = "read" /\ freq.path = p /\ fs[p].kind = "file")
    => LET ls == SplitLines(ReadText(fs[p].bytes), TRUE)
           n == Len(ls)
           o == IF freq.offset > 0 THEN freq.offset ELSE 0
           last == IF freq.limit > 0 /\ o + freq.limit < n
                   THEN o + freq.limit ELSE n
       IN /\ fresp.status = 200
          /\ fresp.total_lines = n
          /\ o >= n => fresp.content = <<>>
          /\ o < n => /\ fresp.content = Join([j \in 1..(last - o) |-> ls[o + j]])
                      /\ fresp.content # <<>>

\* the second line alone of a file of three lines has been read
C20_Witness ==
  /\ freq.op = "read"
  /\ freq.offset = 1
  /\ freq.limit = 1
  /\ fs[freq.path] = File(<<10, 10, 97>>)
  /\ fresp.status = 200
  /\ fresp.total_lines = 3
  /\ fresp.content = <<10>>

====
